---- MODULE Spec2Model ----
(***************************************************************************)
(* Model of the fiber-go-swagger example server (src/main.go): the route   *)
(* table registered in main and the five user handlers.  Every handler is  *)
(* split at its statements, so that the steps of requests in flight        *)
(* interleave.  Spec serves one request at a time, over the wide input     *)
(* domains; Concurrent serves NumConns connections at once, over the       *)
(* narrow ones.                                                            *)
(*                                                                         *)
(* The handlers call into the fiber framework.  Four of its behaviours     *)
(* matter here and are modelled by what fiber v2 does:                     *)
(*   - Group.Get registers the handler for HEAD as well as for GET;        *)
(*   - with the default configuration (no CaseSensitive, no StrictRouting) *)
(*     a path is matched in lower case and without its trailing slash;     *)
(*   - Ctx.BodyParser decodes by Content-Type; for application/json it is  *)
(*     encoding/json's Unmarshal into the target struct, which fails on    *)
(*     malformed text and on a value of the wrong JSON type for a field;   *)
(*     a Content-Type it does not know is an error;                        *)
(*   - a fresh Ctx answers 200 unless Status is called.                    *)
(* log.Println writes a line to stderr and is read by nothing; it is not   *)
(* part of the state.                                                      *)
(***************************************************************************)
EXTENDS Integers, Sequences, FiniteSets, TLC

VARIABLES ctx, served

vars == <<ctx, served>>

(* ---------------------------------------------------------------------- *)
(* Bounds and input domains                                               *)
(* ---------------------------------------------------------------------- *)

\* Number of connections served at once.
NumConns == 2

Conns == 1..NumConns

Methods == {"GET", "HEAD", "POST", "PUT", "DELETE"}

\* The values of the id path segment that are tried.
Ids == {"1", "2", "3", "01", "abc"}

\* Request paths below /api/v1, as lists of segments; a trailing slash is
\* an empty last segment.
Paths ==
    {<<"users">>, <<"Users">>, <<"users", "">>, <<"items">>}
    \cup {<<"users", i>> : i \in Ids}

\* The query string of a list request: page and limit, "" when absent.
NoQuery == [page |-> "", limit |-> ""]

Queries ==
    {[page |-> pg, limit |-> lm] : pg \in {"", "1", "7", "x"}, lm \in {"", "10", "0"}}

\* JSON values of a body's members.
Absent == [kind |-> "absent", s |-> "", n |-> 0]

JStr(s) == [kind |-> "string", s |-> s, n |-> 0]

JNum(n) == [kind |-> "number", s |-> "", n |-> n]

JsonCT == "application/json"

NoBody == [ctype |-> "", wellformed |-> FALSE, name |-> Absent, email |-> Absent, age |-> Absent]

JObject(ct, name, email, age) ==
    [ctype |-> ct, wellformed |-> TRUE, name |-> name, email |-> email, age |-> age]

\* The members of the JSON objects that are tried: missing, ill-formed for
\* the documented schema, well-formed, and of the wrong JSON type.
Names == {Absent, JStr("Ann"), JNum(7)}

Emails == {Absent, JStr("not-an-email"), JStr("ann@example.com")}

Ages == {Absent, JNum(0), JNum(41), JStr("41")}

ContentTypes == {JsonCT, "text/plain"}

\* A body that is not JSON text.
Malformed(ct) == [NoBody EXCEPT !.ctype = ct]

\* The request bodies that are tried.
Bodies ==
    {Malformed(ct) : ct \in ContentTypes}
    \cup {JObject(ct, n, e, a) : ct \in ContentTypes, n \in Names, e \in Emails, a \in Ages}

\* The narrow domains of Concurrent.
ConcPaths == {<<"users">>, <<"items">>, <<"users", "1">>, <<"users", "3">>}

ConcQueries == {NoQuery}

ConcBodies ==
    { Malformed(JsonCT),
      JObject(JsonCT, JStr("Ann"), JStr("ann@example.com"), JNum(41)) }

(* ---------------------------------------------------------------------- *)
(* Types of src/main.go                                                   *)
(* ---------------------------------------------------------------------- *)

User(id, name, email, age) == [ID |-> id, Name |-> name, Email |-> email, Age |-> age]

\* The zero value of User.
ZeroUser == User(0, "", "", 0)

\* The zero value of CreateUserRequest.
ZeroRequest == [Name |-> "", Email |-> "", Age |-> 0]

\* What a handler has written to the connection so far: the status code and
\* the JSON document.  kind tells which Go value was serialised.
NoResponse ==
    [status |-> 200, kind |-> "none", error |-> "", message |-> "",
     hasData |-> FALSE, data |-> ZeroUser, users |-> <<>>]

\* c.Status(code)
Status(r, code) == [r EXCEPT !.status = code]

\* c.JSON([]User)
JSONUsers(r, list) == [r EXCEPT !.kind = "users", !.users = list]

\* c.JSON(User)
JSONUser(r, u) == [r EXCEPT !.kind = "user", !.data = u]

\* A variant of ErrorResponse that leaves Message unset.
ErrorResponse_noMessage(r, e, m) == [r EXCEPT !.kind = "error", !.error = e]

\* c.JSON(ErrorResponse{Error, Message})
ErrorResponse(r, e, m) == [r EXCEPT !.kind = "error", !.error = e, !.message = m]

\* c.JSON(SuccessResponse{Message, Data}); Data is omitted when nil.
SuccessResponse(r, m, withData, u) ==
    [r EXCEPT !.kind = "success", !.message = m, !.hasData = withData, !.data = u]

(* ---------------------------------------------------------------------- *)
(* Routing                                                                *)
(* ---------------------------------------------------------------------- *)

Route(m, p, h) == [method |-> m, pattern |-> p, handler |-> h]

\* The routes of the /api/v1 group, in registration order.  Get registers
\* HEAD before GET.
RouteTable ==
    << Route("HEAD", <<"users">>, "getUsers"),
       Route("GET", <<"users">>, "getUsers"),
       Route("HEAD", <<"users", ":id">>, "getUserByID"),
       Route("GET", <<"users", ":id">>, "getUserByID"),
       Route("POST", <<"users">>, "createUser"),
       Route("PUT", <<"users", ":id">>, "updateUser"),
       Route("DELETE", <<"users", ":id">>, "deleteUser") >>

\* A variant of PatternMatches that matches on a prefix of the path.
PatternMatches_prefix(pattern, path) ==
    /\ Len(pattern) <= Len(path)
    /\ \A k \in 1..Len(pattern) : pattern[k] = ":id" \/ pattern[k] = path[k]

\* A pattern matches a path of the same length whose segments equal the
\* pattern's, a ":name" segment matching any segment.
PatternMatches(pattern, path) ==
    /\ Len(pattern) = Len(path)
    /\ \A k \in 1..Len(pattern) : pattern[k] = ":id" \/ pattern[k] = path[k]

\* utils.ToLower on the segments that are tried.
ToLower(seg) == IF seg = "Users" THEN "users" ELSE seg

\* The path the router matches on: in lower case, the trailing slash removed.
DetectionPath(path) ==
    LET n == IF Len(path) > 1 /\ path[Len(path)] = "" THEN Len(path) - 1 ELSE Len(path)
    IN  [k \in 1..n |-> ToLower(path[k])]

\* The indexes of the routes a request matches.
Matching(method, path) ==
    { k \in 1..Len(RouteTable) :
        /\ RouteTable[k].method = method
        /\ PatternMatches(RouteTable[k].pattern, DetectionPath(path)) }

Min(S) == CHOOSE x \in S : \A y \in S : x <= y

\* The handler a request is dispatched to: the first matching route's, or
\* "none" when no route matches.
Dispatch(method, path) ==
    IF Matching(method, path) = {} THEN "none"
    ELSE RouteTable[Min(Matching(method, path))].handler

\* c.Params("id"): the segment under ":id" of the matched route.
Params(path) == IF Len(path) >= 2 THEN path[2] ELSE ""

(* ---------------------------------------------------------------------- *)
(* Body parsing                                                           *)
(* ---------------------------------------------------------------------- *)

\* Decoding a JSON value into a Go string field.
StringFieldOk(v) == v.kind \in {"absent", "string"}

\* Decoding a JSON value into a Go int field.
IntFieldOk(v) == v.kind \in {"absent", "number"}

\* c.BodyParser(&req): the error it returns.
BodyParserErr(body) ==
    \/ body.ctype # JsonCT
    \/ ~body.wellformed
    \/ ~StringFieldOk(body.name)
    \/ ~StringFieldOk(body.email)
    \/ ~IntFieldOk(body.age)

\* c.BodyParser(&req): req afterwards.  Text that is not JSON, or not sent
\* as JSON, leaves req as it was declared; of an object, a member that is
\* absent or of the wrong type leaves its field at the zero value and the
\* other members are decoded.
BodyParserReq(body) ==
    IF body.ctype = JsonCT /\ body.wellformed
    THEN [Name |-> IF StringFieldOk(body.name) THEN body.name.s ELSE "",
          Email |-> IF StringFieldOk(body.email) THEN body.email.s ELSE "",
          Age |-> IF IntFieldOk(body.age) THEN body.age.n ELSE 0]
    ELSE ZeroRequest

(* ---------------------------------------------------------------------- *)
(* State                                                                  *)
(* ---------------------------------------------------------------------- *)

NoRequest == [method |-> "", path |-> <<>>, query |-> NoQuery, body |-> NoBody]

\* A connection with no request: the handler's locals at their zero values.
IdleCtx ==
    [pc |-> "idle", handler |-> "none", request |-> NoRequest,
     id |-> "", req |-> ZeroRequest, users |-> <<>>, user |-> ZeroUser,
     resp |-> NoResponse]

\* served records which of the writing handlers have answered with success
\* so far; no handler reads it.
Init ==
    /\ ctx = [c \in Conns |-> IdleCtx]
    /\ served = {}

\* The status fiber answers with when no route matches: 404, or 405 when
\* the path is registered for another method.
Unrouted(method, path) ==
    IF \E m \in Methods : Matching(m, path) # {} THEN {404, 405} ELSE {404}

(* ---------------------------------------------------------------------- *)
(* Actions                                                                *)
(* ---------------------------------------------------------------------- *)

\* A request arrives on an idle connection and is dispatched (main's route
\* table).  A query string comes with the requests that reach getUsers, a
\* body with those that reach a handler that parses one.
Receive(c, paths, queries, bodies) ==
    /\ ctx[c].pc = "idle"
    /\ \E m \in Methods, p \in paths :
         LET h == Dispatch(m, p) IN
         \E q \in (IF h = "getUsers" THEN queries ELSE {NoQuery}),
            b \in (IF h \in {"createUser", "updateUser"} THEN bodies ELSE {NoBody}) :
           LET r == [method |-> m, path |-> p, query |-> q, body |-> b]
           IN  IF h = "none"
               THEN \E st \in Unrouted(m, p) :
                      ctx' = [ctx EXCEPT ![c] =
                                [IdleCtx EXCEPT !.pc = "done", !.request = r,
                                                !.resp = [NoResponse EXCEPT
                                                            !.status = st,
                                                            !.kind = "framework"]]]
               ELSE ctx' = [ctx EXCEPT ![c] =
                              [IdleCtx EXCEPT !.pc = h, !.handler = h, !.request = r]]
    /\ UNCHANGED served

Arrive(c) == Receive(c, Paths, Queries, Bodies)

ArriveConcurrent(c) == Receive(c, ConcPaths, ConcQueries, ConcBodies)

\* The mock data of getUsers.
MockUsers ==
    << User(1, "John Doe", "john@example.com", 30),
       User(2, "Jane Smith", "jane@example.com", 25) >>

\* getUsers: users := []User{...}
getUsers_mock(c) ==
    /\ ctx[c].pc = "getUsers"
    /\ ctx' = [ctx EXCEPT ![c].users = MockUsers, ![c].pc = "getUsers_json"]
    /\ UNCHANGED served

\* A variant of getUsers_json that honours the limit parameter.
getUsers_json_paged(c) ==
    /\ ctx[c].pc = "getUsers_json"
    /\ ctx' = [ctx EXCEPT
                 ![c].resp = JSONUsers(@, IF ctx[c].request.query.limit = "0"
                                          THEN <<>> ELSE ctx[c].users),
                 ![c].pc = "done"]
    /\ UNCHANGED served

\* getUsers: return c.JSON(users)
getUsers_json(c) ==
    /\ ctx[c].pc = "getUsers_json"
    /\ ctx' = [ctx EXCEPT ![c].resp = JSONUsers(@, ctx[c].users), ![c].pc = "done"]
    /\ UNCHANGED served

\* The mock data of getUserByID.
MockUser == User(1, "John Doe", "john@example.com", 30)

\* A variant of getUserByID_mock that keeps id in a variable shared by all
\* requests: it reads the id of any request in flight.
getUserByID_mock_shared(c) ==
    /\ ctx[c].pc = "getUserByID"
    /\ \E d \in Conns :
         /\ ctx[d].pc # "idle"
         /\ ctx' = [ctx EXCEPT ![c].id = Params(ctx[d].request.path),
                               ![c].user = MockUser,
                               ![c].pc = "getUserByID_if"]
    /\ UNCHANGED served

\* getUserByID: id := c.Params("id"); user := User{...}
getUserByID_mock(c) ==
    /\ ctx[c].pc = "getUserByID"
    /\ ctx' = [ctx EXCEPT ![c].id = Params(ctx[c].request.path),
                          ![c].user = MockUser,
                          ![c].pc = "getUserByID_if"]
    /\ UNCHANGED served

\* A variant of UserFound that compares the id as a number.
UserFound_numeric(id) == id \in {"1", "01"}

\* A variant of UserFound that also finds a user that createUser has
\* reported as created.
UserFound_stored(id) == id = "1" \/ (id = "3" /\ "createUser" \in served)

\* getUserByID: the test that finds the user.
UserFound(id) == id = "1"

\* getUserByID: if id == "1" { return c.JSON(user) }; otherwise the 404.
UserResponse(r, id, user) ==
    IF UserFound(id)
    THEN JSONUser(r, user)
    ELSE ErrorResponse(Status(r, 404), "Not Found", "User not found")

getUserByID_if(c) ==
    /\ ctx[c].pc = "getUserByID_if"
    /\ ctx' = [ctx EXCEPT ![c].resp = UserResponse(@, ctx[c].id, ctx[c].user),
                          ![c].pc = "done"]
    /\ UNCHANGED served

\* A variant of BadRequest that answers 422.
BadRequest_unprocessable(r) ==
    ErrorResponse(Status(r, 422), "Unprocessable Entity", "Invalid JSON format")

\* The 400 of createUser and updateUser.
BadRequest(r) == ErrorResponse(Status(r, 400), "Bad Request", "Invalid JSON format")

\* createUser: var req; if err := c.BodyParser(&req); err != nil { 400 }
createUser_parse(c) ==
    /\ ctx[c].pc = "createUser"
    /\ IF BodyParserErr(ctx[c].request.body)
       THEN ctx' = [ctx EXCEPT ![c].req = BodyParserReq(ctx[c].request.body),
                               ![c].resp = BadRequest(@),
                               ![c].pc = "done"]
       ELSE ctx' = [ctx EXCEPT ![c].req = BodyParserReq(ctx[c].request.body),
                               ![c].pc = "createUser_resp"]
    /\ UNCHANGED served

\* A variant of CreatedUser that raises an age below 1 to 1.
CreatedUser_minAge(req) ==
    User(3, req.Name, req.Email, IF req.Age < 1 THEN 1 ELSE req.Age)

\* createUser: the fabricated user.
CreatedUser(req) == User(3, req.Name, req.Email, req.Age)

\* createUser: response := SuccessResponse{...}; return c.Status(201).JSON(response)
CreatedResponse(r, req) ==
    SuccessResponse(Status(r, 201), "User created successfully", TRUE, CreatedUser(req))

createUser_resp(c) ==
    /\ ctx[c].pc = "createUser_resp"
    /\ ctx' = [ctx EXCEPT ![c].resp = CreatedResponse(@, ctx[c].req), ![c].pc = "done"]
    /\ served' = served \cup {"createUser"}

\* updateUser: id := c.Params("id"); log.Println(...)
updateUser_id(c) ==
    /\ ctx[c].pc = "updateUser"
    /\ ctx' = [ctx EXCEPT ![c].id = Params(ctx[c].request.path),
                          ![c].pc = "updateUser_parse"]
    /\ UNCHANGED served

\* updateUser: var req; if err := c.BodyParser(&req); err != nil { 400 }
updateUser_parse(c) ==
    /\ ctx[c].pc = "updateUser_parse"
    /\ IF BodyParserErr(ctx[c].request.body)
       THEN ctx' = [ctx EXCEPT ![c].req = BodyParserReq(ctx[c].request.body),
                               ![c].resp = BadRequest(@),
                               ![c].pc = "done"]
       ELSE ctx' = [ctx EXCEPT ![c].req = BodyParserReq(ctx[c].request.body),
                               ![c].pc = "updateUser_resp"]
    /\ UNCHANGED served

\* A variant of UpdatedUser that takes the id from the path.
UpdatedUser_fromPath(id, req) ==
    User(IF id \in {"1", "01"} THEN 1 ELSE IF id = "2" THEN 2 ELSE IF id = "3" THEN 3 ELSE 0,
         req.Name, req.Email, req.Age)

\* updateUser: the fabricated user; id is the handler's local, which the
\* code does not use here.
UpdatedUser(id, req) == User(1, req.Name, req.Email, req.Age)

\* updateUser: response := SuccessResponse{...}; return c.JSON(response)
UpdatedResponse(r, id, req) ==
    SuccessResponse(r, "User updated successfully", TRUE, UpdatedUser(id, req))

updateUser_resp(c) ==
    /\ ctx[c].pc = "updateUser_resp"
    /\ ctx' = [ctx EXCEPT ![c].resp = UpdatedResponse(@, ctx[c].id, ctx[c].req),
                          ![c].pc = "done"]
    /\ served' = served \cup {"updateUser"}

\* deleteUser: id := c.Params("id"); log.Println(...)
deleteUser_id(c) ==
    /\ ctx[c].pc = "deleteUser"
    /\ ctx' = [ctx EXCEPT ![c].id = Params(ctx[c].request.path),
                          ![c].pc = "deleteUser_resp"]
    /\ UNCHANGED served

\* A variant of DeletedResponse that looks the user up first.
DeletedResponse_lookup(r, id) ==
    IF id \in {"1", "2"}
    THEN SuccessResponse(r, "User deleted successfully", FALSE, ZeroUser)
    ELSE ErrorResponse(Status(r, 404), "Not Found", "User not found")

\* deleteUser: the response for the user of that id.
DeletedResponse(r, id) == SuccessResponse(r, "User deleted successfully", FALSE, ZeroUser)

\* deleteUser: response := SuccessResponse{Message}; return c.JSON(response)
deleteUser_resp(c) ==
    /\ ctx[c].pc = "deleteUser_resp"
    /\ ctx' = [ctx EXCEPT ![c].resp = DeletedResponse(@, ctx[c].id), ![c].pc = "done"]
    /\ served' = served \cup {"deleteUser"}

\* The response has been sent; the connection takes the next request.
Release(c) ==
    /\ ctx[c].pc = "done"
    /\ ctx' = [ctx EXCEPT ![c] = IdleCtx]
    /\ UNCHANGED served

\* One connection, one request at a time.
Next ==
    \/ Arrive(1)
    \/ getUsers_mock(1)
    \/ getUsers_json(1)
    \/ getUserByID_mock(1)
    \/ getUserByID_if(1)
    \/ createUser_parse(1)
    \/ createUser_resp(1)
    \/ updateUser_id(1)
    \/ updateUser_parse(1)
    \/ updateUser_resp(1)
    \/ deleteUser_id(1)
    \/ deleteUser_resp(1)
    \/ Release(1)

Spec == Init /\ [][Next]_vars

\* NumConns connections, their handlers' steps interleaved.
NextConcurrent ==
    \E c \in Conns :
        \/ ArriveConcurrent(c)
        \/ getUsers_mock(c)
        \/ getUsers_json(c)
        \/ getUserByID_mock(c)
        \/ getUserByID_if(c)
        \/ createUser_parse(c)
        \/ createUser_resp(c)
        \/ updateUser_id(c)
        \/ updateUser_parse(c)
        \/ updateUser_resp(c)
        \/ deleteUser_id(c)
        \/ deleteUser_resp(c)
        \/ Release(c)

Concurrent == Init /\ [][NextConcurrent]_vars

(* ---------------------------------------------------------------------- *)
(* The generated documentation and the handlers run alone                 *)
(* ---------------------------------------------------------------------- *)

\* The response codes docs/swagger.yaml declares for each operation.
Documented ==
    [h \in {"getUsers", "getUserByID", "createUser", "updateUser", "deleteUser"} |->
        CASE h = "getUsers" -> {200, 500}
          [] h = "getUserByID" -> {200, 400, 404}
          [] h = "createUser" -> {201, 400, 422}
          [] h = "updateUser" -> {200, 400, 404}
          [] h = "deleteUser" -> {200, 400, 404}]

\* The response of the handler a request is dispatched to, run from its
\* first statement to its return on a context of its own.
Sequential(request) ==
    LET h == Dispatch(request.method, request.path)
        id == Params(request.path)
    IN  CASE h = "getUsers" -> JSONUsers(NoResponse, MockUsers)
          [] h = "getUserByID" -> UserResponse(NoResponse, id, MockUser)
          [] h = "createUser" ->
               IF BodyParserErr(request.body) THEN BadRequest(NoResponse)
               ELSE CreatedResponse(NoResponse, BodyParserReq(request.body))
          [] h = "updateUser" ->
               IF BodyParserErr(request.body) THEN BadRequest(NoResponse)
               ELSE UpdatedResponse(NoResponse, id, BodyParserReq(request.body))
          [] h = "deleteUser" -> DeletedResponse(NoResponse, id)
          [] OTHER -> NoResponse

(* ---------------------------------------------------------------------- *)
(* Properties                                                             *)
(* ---------------------------------------------------------------------- *)

Done(c) == ctx[c].pc = "done"

\* Connection c holds the finished response of handler h.
HandledBy(c, h) == Done(c) /\ ctx[c].handler = h

\* The id segment of the request on c (of a /users/{id} request).
PathId(c) == ctx[c].request.path[2]

John == [ID |-> 1, Name |-> "John Doe", Email |-> "john@example.com", Age |-> 30]

Jane == [ID |-> 2, Name |-> "Jane Smith", Email |-> "jane@example.com", Age |-> 25]

\* The wire form of a response.
Wire(st, kind, err, msg, hasData, data, list) ==
    [status |-> st, kind |-> kind, error |-> err, message |-> msg,
     hasData |-> hasData, data |-> data, users |-> list]

\* The body is sent as application/json and is the text of a JSON object.
JsonObjectBody(b) == b.ctype = "application/json" /\ b.wellformed

\* The body is a JSON object whose members, when present, have the JSON
\* type of the CreateUserRequest field: name and email strings, age a number.
FitsRequest(b) ==
    /\ JsonObjectBody(b)
    /\ b.name.kind # "number"
    /\ b.email.kind # "number"
    /\ b.age.kind # "string"

\* The user a success response echoes for body b.
Echo(id, b) == [ID |-> id, Name |-> b.name.s, Email |-> b.email.s, Age |-> b.age.n]

\* C1: getUserByID answers 200 with the John Doe record if and only if the
\* path id is exactly the string "1"; for every other id it answers 404 with
\* ErrorResponse{"Not Found", "User not found"}.
C1_GetUserByID ==
    \A c \in Conns : HandledBy(c, "getUserByID") =>
        IF PathId(c) = "1"
        THEN ctx[c].resp = Wire(200, "user", "", "", FALSE, John, <<>>)
        ELSE ctx[c].resp = Wire(404, "error", "Not Found", "User not found",
                                FALSE, ZeroUser, <<>>)

\* C1 witness: the id "01", a numeral other than "1", has been answered 404.
C1_Witness ==
    \E c \in Conns : /\ HandledBy(c, "getUserByID")
                     /\ PathId(c) = "01"
                     /\ ctx[c].resp.status = 404

\* C2 as stated: createUser answers 201 with the created user, id 3, for
\* every body that is a syntactically valid JSON object.
C2_AnyJsonObject ==
    \A c \in Conns : HandledBy(c, "createUser") /\ JsonObjectBody(ctx[c].request.body) =>
        /\ ctx[c].resp.status = 201
        /\ ctx[c].resp.kind = "success"
        /\ ctx[c].resp.data.ID = 3

\* C2: createUser answers 201 with SuccessResponse{"User created
\* successfully"} and the user {3, name, email, age} of the submitted members
\* for every JSON object whose members have the JSON types of the request's
\* fields, whether or not they are present or meet the documented
\* constraints; a missing member is echoed as the zero value.
C2_CreateUser ==
    \A c \in Conns : HandledBy(c, "createUser") /\ FitsRequest(ctx[c].request.body) =>
        ctx[c].resp = Wire(201, "success", "", "User created successfully", TRUE,
                           Echo(3, ctx[c].request.body), <<>>)

\* C2 witness: a body without name, with an email that is no address and
\* with age 0 has been answered 201.
C2_Witness ==
    \E c \in Conns : /\ HandledBy(c, "createUser")
                     /\ ctx[c].request.body.name.kind = "absent"
                     /\ ctx[c].request.body.email.s = "not-an-email"
                     /\ ctx[c].request.body.age = [kind |-> "number", s |-> "", n |-> 0]
                     /\ ctx[c].resp.status = 201

\* C3: updateUser with a body that parses answers 200 with
\* SuccessResponse{"User updated successfully"} and a user whose id is 1
\* whatever the path id is and whose other fields echo the body.
C3_UpdateUser ==
    \A c \in Conns : HandledBy(c, "updateUser") /\ FitsRequest(ctx[c].request.body) =>
        ctx[c].resp = Wire(200, "success", "", "User updated successfully", TRUE,
                           Echo(1, ctx[c].request.body), <<>>)

\* C3 witness: an update of /users/2 has been answered with a user of id 1.
C3_Witness ==
    \E c \in Conns : /\ HandledBy(c, "updateUser")
                     /\ PathId(c) = "2"
                     /\ ctx[c].resp.status = 200
                     /\ ctx[c].resp.data.ID = 1
                     /\ ctx[c].resp.data.Name = "Ann"

\* C4: createUser and updateUser answer 400 exactly for the bodies that do
\* not parse, the same bodies for both, and then with exactly
\* ErrorResponse{"Bad Request", "Invalid JSON format"} and no user.
C4_BadRequest ==
    \A c \in Conns :
        HandledBy(c, "createUser") \/ HandledBy(c, "updateUser") =>
            /\ ctx[c].resp.status = 400 <=> ~FitsRequest(ctx[c].request.body)
            /\ ~FitsRequest(ctx[c].request.body) =>
                 ctx[c].resp = Wire(400, "error", "Bad Request", "Invalid JSON format",
                                    FALSE, ZeroUser, <<>>)

\* C4 witness: an update whose body is not JSON text has been answered 400.
C4_Witness ==
    \E c \in Conns : /\ HandledBy(c, "updateUser")
                     /\ ~ctx[c].request.body.wellformed
                     /\ ctx[c].resp.status = 400

\* C5: deleteUser answers 200 with SuccessResponse{"User deleted
\* successfully"} and no data for every id, although the documentation
\* declares 400 and 404 for it.
C5_DeleteUser ==
    /\ {400, 404} \subseteq Documented["deleteUser"]
    /\ \A c \in Conns : HandledBy(c, "deleteUser") =>
         ctx[c].resp = Wire(200, "success", "", "User deleted successfully", FALSE,
                            ZeroUser, <<>>)

\* C5 witness: the deletion of a user that does not exist has been answered 200.
C5_Witness ==
    \E c \in Conns : /\ HandledBy(c, "deleteUser")
                     /\ PathId(c) = "abc"
                     /\ ctx[c].resp.status = 200

\* C6: getUsers answers 200 with exactly John Doe followed by Jane Smith for
\* every page and limit.
C6_GetUsers ==
    \A c \in Conns : HandledBy(c, "getUsers") =>
        ctx[c].resp = Wire(200, "users", "", "", FALSE, ZeroUser, <<John, Jane>>)

\* C6 witness: a list request with page 7 and limit 0 has been answered.
C6_Witness ==
    \E c \in Conns : /\ HandledBy(c, "getUsers")
                     /\ ctx[c].request.query = [page |-> "7", limit |-> "0"]
                     /\ Len(ctx[c].resp.users) = 2

\* C7: whatever has been created, updated or deleted before, /users/3 is
\* not found, /users/1 is the original John Doe, the list has its two users,
\* and two responses to the same request are equal.
C7_NothingPersists ==
    \A c \in Conns : Done(c) /\ ctx[c].handler # "none" =>
        /\ HandledBy(c, "getUserByID") /\ PathId(c) = "3" => ctx[c].resp.status = 404
        /\ HandledBy(c, "getUserByID") /\ PathId(c) = "1" =>
             ctx[c].resp.status = 200 /\ ctx[c].resp.data = John
        /\ HandledBy(c, "getUsers") => ctx[c].resp.users = <<John, Jane>>
        /\ \A d \in Conns :
             Done(d) /\ ctx[d].request = ctx[c].request => ctx[d].resp = ctx[c].resp

\* C7 witness: a user has been created, one updated and one deleted, the
\* creation's response (id 3) is still held, and /users/3 has been answered 404.
C7_Witness ==
    /\ served = {"createUser", "updateUser", "deleteUser"}
    /\ \E c, d \in Conns :
         /\ HandledBy(c, "createUser") /\ ctx[c].resp.data.ID = 3
         /\ HandledBy(d, "getUserByID") /\ PathId(d) = "3" /\ ctx[d].resp.status = 404

\* C8: a handler's error response is (400, "Bad Request") from createUser or
\* updateUser, or (404, "Not Found") from getUserByID; the documented 500 of
\* the list, 422 of create, 400 of get and delete and 404 of update and
\* delete are never produced; a response is a whole success payload or a
\* whole ErrorResponse.
C8_ErrorKinds ==
    /\ 500 \in Documented["getUsers"] /\ 422 \in Documented["createUser"]
    /\ 400 \in Documented["getUserByID"] /\ 404 \in Documented["updateUser"]
    /\ \A c \in Conns : Done(c) /\ ctx[c].handler # "none" =>
         LET r == ctx[c].resp
             h == ctx[c].handler
         IN  /\ r.kind \in {"users", "user", "success", "error"}
             /\ r.kind = "error" <=> r.status >= 400
             /\ r.kind = "error" =>
                  /\ \/ r.status = 400 /\ r.error = "Bad Request"
                        /\ h \in {"createUser", "updateUser"}
                     \/ r.status = 404 /\ r.error = "Not Found" /\ h = "getUserByID"
                  /\ r.message # ""
                  /\ ~r.hasData /\ r.data = ZeroUser /\ r.users = <<>>
             /\ r.kind # "error" => r.error = "" /\ r.status \in {200, 201}
             /\ r.kind = "success" => r.message # ""
             /\ r.status \in Documented[h]
             /\ h = "getUsers" => r.status # 500
             /\ h = "createUser" => r.status # 422
             /\ h \in {"getUserByID", "deleteUser"} => r.status # 400
             /\ h \in {"updateUser", "deleteUser"} => r.status # 404

\* C8 witness: getUserByID has answered with the Not Found error.
C8_Witness ==
    \E c \in Conns : /\ HandledBy(c, "getUserByID")
                     /\ ctx[c].resp.kind = "error"
                     /\ ctx[c].resp.error = "Not Found"

\* C9: with several requests in flight, every request gets the response its
\* handler gives when run alone, and a handler's locals come from its own
\* request.
C9_Isolation ==
    \A c \in Conns :
        /\ Done(c) /\ ctx[c].handler # "none" => ctx[c].resp = Sequential(ctx[c].request)
        /\ ctx[c].id \in {"", Params(ctx[c].request.path)}
        /\ ctx[c].req \in {ZeroRequest, BodyParserReq(ctx[c].request.body)}

\* C9 witness: two lookups, of /users/1 and of /users/3, have been in flight
\* together and have been answered 200 and 404.
C9_Witness ==
    \E c, d \in Conns :
        /\ HandledBy(c, "getUserByID") /\ PathId(c) = "1" /\ ctx[c].resp.status = 200
        /\ HandledBy(d, "getUserByID") /\ PathId(d) = "3" /\ ctx[d].resp.status = 404

\* The handler of the five (method, path) pairs of the claim.
FivePairs(m, p) ==
    IF p = <<"users">>
    THEN CASE m = "GET" -> "getUsers"
           [] m = "POST" -> "createUser"
           [] OTHER -> "none"
    ELSE IF Len(p) = 2 /\ p[1] = "users" /\ p[2] # ""
    THEN CASE m = "GET" -> "getUserByID"
           [] m = "PUT" -> "updateUser"
           [] m = "DELETE" -> "deleteUser"
           [] OTHER -> "none"
    ELSE "none"

\* The path /users written with capitals or with a trailing slash.
UsersPath(p) == p \in {<<"users">>, <<"Users">>, <<"users", "">>, <<"Users", "">>}

\* The five pairs, with HEAD where GET is registered and the spellings of
\* /users taken for /users.
FivePairsAsRouted(m, p) ==
    FivePairs(IF m = "HEAD" THEN "GET" ELSE m, IF UsersPath(p) THEN <<"users">> ELSE p)

\* C10 as stated: a request is dispatched to the handler of its pair when
\* it is one of the five pairs (in any spelling of /users) and to no handler
\* otherwise.
C10_OnlyFivePairs ==
    \A c \in Conns : ctx[c].pc # "idle" =>
        ctx[c].handler = FivePairs(ctx[c].request.method,
                                   IF UsersPath(ctx[c].request.path)
                                   THEN <<"users">> ELSE ctx[c].request.path)

\* C10: a request is dispatched to the handler of its pair when it is one of
\* the five pairs, the path compared without regard to case or a trailing
\* slash and HEAD routed as GET, and to no handler otherwise; no request
\* matches two routes; the handler reads the id segment as it is in the path.
C10_Routing ==
    \A c \in Conns : ctx[c].pc # "idle" =>
        LET m == ctx[c].request.method
            p == ctx[c].request.path
        IN  /\ ctx[c].handler = FivePairsAsRouted(m, p)
            /\ Cardinality(Matching(m, p)) <= 1
            /\ ctx[c].handler \in {"getUserByID", "updateUser", "deleteUser"}
                 /\ ctx[c].pc # ctx[c].handler => ctx[c].id = p[2]

\* C10 witness: POST /users/01 has reached no handler, and neither has
\* what the framework answered.
C10_Witness ==
    \E c \in Conns : /\ Done(c)
                     /\ ctx[c].request.method = "POST"
                     /\ ctx[c].request.path = <<"users", "01">>
                     /\ ctx[c].handler = "none"
                     /\ ctx[c].resp.kind = "framework"

====
